---------------------------- MODULE Spec2Model ----------------------------
(***************************************************************************)
(* A model of BluetoothMeshComm (src/bluetooth_mesh_com.py): the mesh      *)
(* packet framing, the sequence counter, the TTL-bounded relay, the        *)
(* payload cipher and the start/stop lifecycle with its presence thread.   *)
(*                                                                         *)
(* Bytes are integers 0..255 and byte strings are sequences of them; a     *)
(* text is a sequence of Unicode code points.  Python indices are 0-based, *)
(* the sequences here 1-based: Python's packet[k] is packet[k + 1] here.   *)
(***************************************************************************)
EXTENDS Integers, Sequences, FiniteSets, TLC

(***************************************************************************)
(* Program constants.                                                      *)
(***************************************************************************)
MAX_PAYLOAD_SIZE == 23
TTL_DEFAULT == 7
SEQ_MODULUS == 65535
OPCODE_TEXT == 1
BLOCK_SIZE == 16
HEADER_SIZE == 8
BROADCAST == 65535

\* network_key = b'0123456789abcdef'
NETWORK_KEY == <<48, 49, 50, 51, 52, 53, 54, 55, 56, 57, 97, 98, 99, 100, 101, 102>>
\* a key of some other mesh, used only to build foreign traffic
FOREIGN_KEY == <<102, 101, 100, 99, 98, 97, 57, 56, 55, 54, 53, 52, 51, 50, 49, 48>>

(***************************************************************************)
(* Bounds of the model.                                                    *)
(***************************************************************************)
MaxTextLen == 24
MaxBuilt == 2
MaxTasks == 1
\* presence threads of one node alive together in SpecLife
MaxLifeTasks == 2
NearWrap == 65533

(***************************************************************************)
(* Byte-string helpers.                                                    *)
(***************************************************************************)
Min(a, b) == IF a < b THEN a ELSE b

Zeros(n) == [i \in 1..n |-> 0]

Rep(c, n) == [i \in 1..n |-> c]

\* struct.pack('>H', x): two bytes, most significant first
PackH(x) == <<x \div 256, x % 256>>

\* struct.unpack('>H', b)[0]
UnpackH(b) == b[1] * 256 + b[2]

\* Python's s[a:b] for 0 <= a <= b
Slice(s, a, b) == SubSeq(s, a + 1, Min(b, Len(s)))

\* Python's s[a:]
SliceFrom(s, a) == SubSeq(s, a + 1, Len(s))

\* bytes.rstrip(b'\x00'): drops every trailing zero byte
RECURSIVE RStripZeros(_)
RStripZeros(s) ==
    IF s = <<>> \/ s[Len(s)] # 0 THEN s ELSE RStripZeros(SubSeq(s, 1, Len(s) - 1))

(***************************************************************************)
(* The cipher.  AES-128 in ECB mode is a keyed permutation of 16-byte      *)
(* blocks applied to each block independently.  The permutation itself is  *)
(* abstracted by a simple keyed bijection of blocks: what the program      *)
(* relies on is the length of the output, the block alignment that         *)
(* finalize() demands, determinism and invertibility under the same key.   *)
(***************************************************************************)
\* the first byte position (0-based) of the block that holds byte i
BlockBase(i) == ((i - 1) \div BLOCK_SIZE) * BLOCK_SIZE

\* encryptor.update(data) + encryptor.finalize(), Len(data) a multiple of 16:
\* byte j of a cipher block is (plain[17 - j] + key[j] + j) mod 256
EcbEncrypt(key, data) ==
    [i \in 1..Len(data) |->
        LET base == BlockBase(i)
            j == i - base
        IN (data[base + BLOCK_SIZE + 1 - j] + key[j] + j) % 256]

\* decryptor.update(data) + decryptor.finalize(), Len(data) a multiple of 16:
\* the inverse permutation of each block
EcbDecrypt(key, data) ==
    [i \in 1..Len(data) |->
        LET base == BlockBase(i)
            j == i - base
        IN (data[base + BLOCK_SIZE + 1 - j] - key[BLOCK_SIZE + 1 - j]
            - (BLOCK_SIZE + 1 - j)) % 256]

\* finalize() raises ValueError unless the data is a whole number of blocks
\* (no data at all is zero blocks and is accepted)
CipherLengthOk(data) == Len(data) % BLOCK_SIZE = 0

_encrypt_payload(key, payload) ==
    LET padded_payload == payload \o Zeros(BLOCK_SIZE - (Len(payload) % BLOCK_SIZE))
    IN EcbEncrypt(key, padded_payload)

_decrypt_payload(key, encrypted_payload) ==
    RStripZeros(EcbDecrypt(key, encrypted_payload))

(***************************************************************************)
(* Text: str.encode('utf-8'), bytes.decode('utf-8', errors='ignore') and   *)
(* the f-string of the message callback.                                   *)
(***************************************************************************)
Utf8Char(cp) ==
    IF cp < 128 THEN <<cp>>
    ELSE IF cp < 2048 THEN <<192 + (cp \div 64), 128 + (cp % 64)>>
    ELSE IF cp < 65536 THEN
        <<224 + (cp \div 4096), 128 + ((cp \div 64) % 64), 128 + (cp % 64)>>
    ELSE <<240 + (cp \div 262144), 128 + ((cp \div 4096) % 64),
           128 + ((cp \div 64) % 64), 128 + (cp % 64)>>

RECURSIVE Utf8Encode(_)
Utf8Encode(text) ==
    IF text = <<>> THEN <<>> ELSE Utf8Char(Head(text)) \o Utf8Encode(Tail(text))

IsCont(b) == b >= 128 /\ b <= 191

\* the number of bytes of the well-formed UTF-8 sequence that starts at
\* b[i], or 0 when no well-formed sequence starts there
Utf8SeqLen(b, i) ==
    LET n == Len(b)
        b0 == b[i]
    IN IF b0 < 128 THEN 1
       ELSE IF b0 >= 194 /\ b0 <= 223
         THEN IF i + 1 <= n /\ IsCont(b[i + 1]) THEN 2 ELSE 0
       ELSE IF b0 >= 224 /\ b0 <= 239
         THEN IF /\ i + 2 <= n
                 /\ IsCont(b[i + 1])
                 /\ IsCont(b[i + 2])
                 /\ (b0 = 224 => b[i + 1] >= 160)
                 /\ (b0 = 237 => b[i + 1] <= 159)
              THEN 3 ELSE 0
       ELSE IF b0 >= 240 /\ b0 <= 244
         THEN IF /\ i + 3 <= n
                 /\ IsCont(b[i + 1])
                 /\ IsCont(b[i + 2])
                 /\ IsCont(b[i + 3])
                 /\ (b0 = 240 => b[i + 1] >= 144)
                 /\ (b0 = 244 => b[i + 1] <= 143)
              THEN 4 ELSE 0
       ELSE 0

Utf8CodePoint(b, i, k) ==
    IF k = 1 THEN b[i]
    ELSE IF k = 2 THEN (b[i] - 192) * 64 + (b[i + 1] - 128)
    ELSE IF k = 3 THEN (b[i] - 224) * 4096 + (b[i + 1] - 128) * 64 + (b[i + 2] - 128)
    ELSE (b[i] - 240) * 262144 + (b[i + 1] - 128) * 4096
         + (b[i + 2] - 128) * 64 + (b[i + 3] - 128)

\* decode from byte i on; a byte that starts no well-formed sequence is skipped
RECURSIVE Utf8DecodeFrom(_, _)
Utf8DecodeFrom(b, i) ==
    IF i > Len(b) THEN <<>>
    ELSE LET k == Utf8SeqLen(b, i)
         IN IF k = 0 THEN Utf8DecodeFrom(b, i + 1)
            ELSE <<Utf8CodePoint(b, i, k)>> \o Utf8DecodeFrom(b, i + k)

Utf8DecodeIgnore(b) == Utf8DecodeFrom(b, 1)

\* str(n) for n >= 0, as code points
RECURSIVE Decimal(_)
Decimal(n) == IF n < 10 THEN <<48 + n>> ELSE Decimal(n \div 10) \o <<48 + (n % 10)>>

\* f"Node {source_id}: {message}"
FormatMessage(source_id, message) ==
    <<78, 111, 100, 101, 32>> \o Decimal(source_id) \o <<58, 32>> \o message

(***************************************************************************)
(* The packet codec.                                                       *)
(***************************************************************************)
\* _create_mesh_packet, the frame it returns
BuildFrame(node_id, sequence_number, destination_id, opcode, payload, ttl) ==
    LET packet0 == Zeros(8 + Len(payload))
        packet1 == [packet0 EXCEPT ![1] = opcode]
        packed == PackH(node_id) \o PackH(destination_id) \o <<ttl>>
                  \o PackH(sequence_number)
        \* pack_into('>HHBH', packet, 1, ...) writes packet[1] .. packet[7]
        packet2 == [i \in 1..Len(packet1) |->
                       IF i >= 2 /\ i <= 8 THEN packed[i - 1] ELSE packet1[i]]
        \* packet[7:] = payload
        packet3 == Slice(packet2, 0, 7) \o payload
    IN packet3

\* _create_mesh_packet, the counter it leaves
NextSeq(sequence_number) == (sequence_number + 1) % SEQ_MODULUS

\* the field extraction of _process_mesh_message, Len(scan_record) >= 8
Decode(scan_record) ==
    [opcode |-> scan_record[1],
     source_id |-> UnpackH(Slice(scan_record, 1, 3)),
     destination_id |-> UnpackH(Slice(scan_record, 3, 5)),
     ttl |-> scan_record[6],
     seq_num |-> UnpackH(Slice(scan_record, 6, 8)),
     encrypted_payload |-> SliceFrom(scan_record, 8)]


(***************************************************************************)
(* The decisions of the receive path and of send_message.                  *)
(***************************************************************************)
\* the length test, were it written len(scan_record) < 5
TooShortFive(scan_record) == Len(scan_record) < 5

\* if len(scan_record) < 8: return
TooShort(scan_record) == Len(scan_record) < HEADER_SIZE

\* scan_record[0], scan_record[5] and struct.unpack('>H', scan_record[6:8])
\* need 8 bytes: on a shorter buffer they raise IndexError or struct.error
FieldsReadable(scan_record) == Len(scan_record) >= 8

\* the test of the hop budget, were it written ttl < 0
ExhaustedStrict(ttl) == ttl < 0

\* if ttl <= 0: return
Exhausted(ttl) == ttl <= 0

\* the relay test, were it written ttl >= 1
ShouldRelayFromOne(ttl, is_running) == ttl >= 1 /\ is_running

\* the relay test, were it written without the running flag
ShouldRelayStopped(ttl, is_running) == ttl > 1

\* if ttl > 1 and self.running:
ShouldRelay(ttl, is_running) == ttl > 1 /\ is_running

\* the hop budget of a relay, were it passed on as received
RelayTtlKept(ttl) == ttl

\* _create_mesh_packet(destination_id, opcode, payload, ttl - 1)
RelayTtl(ttl) == ttl - 1

\* if len(text) > MAX_PAYLOAD_SIZE: the length is counted in characters
TooLong(text) == Len(text) > MAX_PAYLOAD_SIZE

(***************************************************************************)
(* The nodes and the inputs.                                               *)
(***************************************************************************)
\* node identities (MeshCommApp constructs node 0x0001; 0x0102 is a peer)
Nodes == {1, 258}

Hi == <<104, 105>>

\* texts handed to send_message: "hi", 15 and 16 ASCII characters, 8
\* two-byte characters, and a text that is longer than MAX_PAYLOAD_SIZE
Texts == {Hi, Rep(97, 15), Rep(97, 16), Rep(233, 8), Rep(97, MaxTextLen)}

Destinations == {BROADCAST, 258}

\* a frame in the documented wire layout, as a peer implementation of the
\* protocol (or anything else on the mesh channel) puts it on the air
WireFrame(opcode, source_id, destination_id, ttl, seq_num, payload) ==
    <<opcode>> \o PackH(source_id) \o PackH(destination_id) \o <<ttl>>
    \o PackH(seq_num) \o payload

ExtOpcodes == {OPCODE_TEXT, 2}
ExtTtls == {0, 1, 2, 255}
ExtSource == 7
ExtSeq == 513
ExtPayloads ==
    {_encrypt_payload(NETWORK_KEY, Hi), _encrypt_payload(FOREIGN_KEY, Hi),
     <<>>, <<1, 2, 3, 4, 5>>}

\* what the scanner may deliver besides the frames of the modelled nodes
ExternalFrames ==
    {WireFrame(o, ExtSource, BROADCAST, t, ExtSeq, p) :
        o \in ExtOpcodes, t \in ExtTtls, p \in ExtPayloads}
    \cup {<<1, 0, 7, 255, 255>>, <<1, 0, 7, 255, 255, 7, 2>>}

\* the counter values a node starts the model with: a node just constructed,
\* and one that has built NearWrap packets since
StartSeqs == {0, NearWrap}

TaskPcs == {"new", "check", "sleep"}

\* the threads that build packets: the application's, which calls
\* send_message, and the scanner's, which calls onScanResult
Threads == {"app", "scan"}

\* the positions of a thread inside _create_mesh_packet and _advertise_packet
BuildPcs == {"pack", "load", "store", "adv"}

\* a frame that is relayed by a running node, and one that is not
RaceFrames ==
    {WireFrame(OPCODE_TEXT, ExtSource, BROADCAST, t, ExtSeq,
               _encrypt_payload(NETWORK_KEY, Hi)) : t \in {1, 2}}

(***************************************************************************)
(* The state.                                                              *)
(***************************************************************************)
VARIABLES
    running,             \* self.running
    sequence_number,     \* self.sequence_number
    message_callback,    \* self.message_callback is not None
    scan_callback,       \* the attribute self.scan_callback exists
    advertise_callback,  \* the attribute self.advertise_callback exists
    tasks,               \* the live _advertise_presence threads, per position
    stale,               \* those of tasks that were alive at the last stop()
    built,               \* packets built by _create_mesh_packet so far
    proc,                \* where each thread is in send_message or the receive path
    last                 \* the last operation: its inputs and what it did

vars == <<running, sequence_number, message_callback, scan_callback,
          advertise_callback, tasks, stale, built, proc, last>>

\* where a received frame came from; hops counts the transmissions on its
\* path up to the one that brought it, ttl0 is the ttl of the first of them
NoOrigin == [kind |-> "none", node |-> 0, text |-> <<>>, hops |-> 0, ttl0 |-> 0]

Idle ==
    [op |-> "init", node |-> 0, text |-> <<>>, dest |-> 0, frame |-> <<>>,
     origin |-> NoOrigin, seq0 |-> 0, running0 |-> FALSE, rejected |-> FALSE,
     pc |-> "none", old |-> FALSE, ended |-> FALSE, thread |-> "none",
     began |-> FALSE, pkt |-> <<>>,
     out |-> <<>>, delivered |-> <<>>, error |-> "none"]

\* a thread that is in neither send_message nor the receive path
IdleProc ==
    [pc |-> "idle", dest |-> 0, opcode |-> 0, payload |-> <<>>, ttl |-> 0,
     seq |-> 0, reg |-> 0, frame |-> <<>>, began |-> FALSE, checked |-> FALSE]

\* __init__ (sequence_number = 0), or the same node after NearWrap calls of
\* send_message, each of which advances the counter by one
Init ==
    /\ running = [n \in Nodes |-> FALSE]
    /\ \E s \in StartSeqs :
          /\ sequence_number = [n \in Nodes |-> s]
          /\ built = [n \in Nodes |-> s]
    /\ message_callback = [n \in Nodes |-> FALSE]
    /\ scan_callback = [n \in Nodes |-> FALSE]
    /\ advertise_callback = [n \in Nodes |-> FALSE]
    /\ tasks = [n \in Nodes |-> [pc \in TaskPcs |-> 0]]
    /\ stale = [n \in Nodes |-> [pc \in TaskPcs |-> 0]]
    /\ proc = [n \in Nodes |-> [th \in Threads |-> IdleProc]]
    /\ last = Idle

\* MeshCommApp.__init__: the nodes are constructed and their message
\* callbacks registered
InitNet ==
    /\ running = [n \in Nodes |-> FALSE]
    /\ sequence_number = [n \in Nodes |-> 0]
    /\ built = [n \in Nodes |-> 0]
    /\ message_callback = [n \in Nodes |-> TRUE]
    /\ scan_callback = [n \in Nodes |-> FALSE]
    /\ advertise_callback = [n \in Nodes |-> FALSE]
    /\ tasks = [n \in Nodes |-> [pc \in TaskPcs |-> 0]]
    /\ stale = [n \in Nodes |-> [pc \in TaskPcs |-> 0]]
    /\ proc = [n \in Nodes |-> [th \in Threads |-> IdleProc]]
    /\ last = Idle

TaskCount(n) == tasks[n]["new"] + tasks[n]["check"] + tasks[n]["sleep"]

\* the packets a node has built since the start of the model
BuiltHere(n) == IF built[n] >= NearWrap THEN built[n] - NearWrap ELSE built[n]

(***************************************************************************)
(* _create_mesh_packet followed by _advertise_packet, as send_message and  *)
(* the relay both call them: the packet is built and the counter advanced, *)
(* then the packet is handed to the advertiser, which fails with an        *)
(* AttributeError when self.advertise_callback was never assigned.         *)
(***************************************************************************)
Built(n, destination_id, opcode, payload, ttl) ==
    [node_id |-> n, sequence_number |-> sequence_number[n],
     destination_id |-> destination_id, opcode |-> opcode,
     payload |-> payload, ttl |-> ttl,
     frame |-> BuildFrame(n, sequence_number[n], destination_id, opcode, payload, ttl)]

\* _advertise_packet: the frames that reach the advertiser
Advertised(n, packet) == IF advertise_callback[n] THEN <<packet>> ELSE <<>>

AdvertiseError(n) == IF advertise_callback[n] THEN "none" ELSE "AttributeError"

(***************************************************************************)
(* The operations.                                                         *)
(***************************************************************************)
\* mesh.message_callback = ...
SetMessageCallback(n) ==
    /\ ~message_callback[n]
    /\ message_callback' = [message_callback EXCEPT ![n] = TRUE]
    /\ last' = [Idle EXCEPT !.op = "setcb", !.node = n]
    /\ UNCHANGED <<running, sequence_number, scan_callback, advertise_callback,
                   tasks, stale, built, proc>>

\* start(); enabled is what adapter.isEnabled() answers
Start(n, enabled) ==
    /\ IF enabled
         THEN /\ running' = [running EXCEPT ![n] = TRUE]
              /\ scan_callback' = [scan_callback EXCEPT ![n] = TRUE]
              /\ tasks' = [tasks EXCEPT ![n]["new"] = @ + 1]
         ELSE UNCHANGED <<running, scan_callback, tasks>>
    /\ last' = [Idle EXCEPT !.op = "start", !.node = n, !.running0 = running[n],
                            !.rejected = ~enabled]
    /\ UNCHANGED <<sequence_number, message_callback, advertise_callback, stale,
                   built, proc>>

\* stop(); no thread is joined or told to end: those alive go on until they
\* next read self.running
Stop(n) ==
    /\ running' = [running EXCEPT ![n] = FALSE]
    /\ stale' = [stale EXCEPT ![n] = tasks[n]]
    /\ last' = [Idle EXCEPT !.op = "stop", !.node = n, !.running0 = running[n],
                   !.error = IF scan_callback[n] /\ advertise_callback[n]
                             THEN "none" ELSE "AttributeError"]
    /\ UNCHANGED <<sequence_number, message_callback, scan_callback,
                   advertise_callback, tasks, built, proc>>

\* one of the threads at pc takes the step: old says whether it is one that
\* was alive at the last stop()
Steps(n, pc, old) ==
    IF old THEN stale[n][pc] > 0 ELSE tasks[n][pc] > stale[n][pc]

\* _advertise_presence up to its loop: the thread assigns advertise_callback
TaskSetup(n) ==
    \E old \in BOOLEAN :
        /\ Steps(n, "new", old)
        /\ advertise_callback' = [advertise_callback EXCEPT ![n] = TRUE]
        /\ tasks' = [tasks EXCEPT ![n]["new"] = @ - 1, ![n]["check"] = @ + 1]
        /\ stale' = IF old
                      THEN [stale EXCEPT ![n]["new"] = @ - 1, ![n]["check"] = @ + 1]
                      ELSE stale
        /\ last' = [Idle EXCEPT !.op = "task", !.node = n, !.pc = "new",
                                !.old = old]
        /\ UNCHANGED <<running, sequence_number, message_callback, scan_callback,
                       built, proc>>

\* while self.running: startAdvertising, then sleep; the thread ends otherwise
TaskCheck(n) ==
    \E old \in BOOLEAN :
        /\ Steps(n, "check", old)
        /\ IF running[n]
             THEN tasks' = [tasks EXCEPT ![n]["check"] = @ - 1, ![n]["sleep"] = @ + 1]
             ELSE tasks' = [tasks EXCEPT ![n]["check"] = @ - 1]
        /\ stale' = IF old THEN [stale EXCEPT ![n]["check"] = @ - 1] ELSE stale
        /\ last' = [Idle EXCEPT !.op = "task", !.node = n, !.pc = "check",
                                !.old = old, !.ended = ~running[n]]
        /\ UNCHANGED <<running, sequence_number, message_callback, scan_callback,
                       advertise_callback, built, proc>>

\* the sleep of 5 s is over: stopAdvertising, back to the loop test
TaskWake(n) ==
    \E old \in BOOLEAN :
        /\ Steps(n, "sleep", old)
        /\ tasks' = [tasks EXCEPT ![n]["sleep"] = @ - 1, ![n]["check"] = @ + 1]
        /\ stale' = IF old
                      THEN [stale EXCEPT ![n]["sleep"] = @ - 1, ![n]["check"] = @ + 1]
                      ELSE stale
        /\ last' = [Idle EXCEPT !.op = "task", !.node = n, !.pc = "sleep",
                                !.old = old]
        /\ UNCHANGED <<running, sequence_number, message_callback, scan_callback,
                       advertise_callback, built, proc>>

\* send_message(destination_id, text)
SendMessage(n, destination_id, text) ==
    LET payload == Utf8Encode(text)
        encrypted_payload == _encrypt_payload(NETWORK_KEY, payload)
        b == Built(n, destination_id, OPCODE_TEXT, encrypted_payload, TTL_DEFAULT)
        op == [Idle EXCEPT !.op = "send", !.node = n, !.text = text,
                           !.dest = destination_id, !.seq0 = sequence_number[n],
                           !.running0 = running[n]]
    IN IF TooLong(text)
         THEN /\ last' = [op EXCEPT !.rejected = TRUE]
              /\ UNCHANGED <<running, sequence_number, message_callback,
                             scan_callback, advertise_callback, tasks, stale,
                             built, proc>>
         ELSE /\ BuiltHere(n) < MaxBuilt
              /\ sequence_number' =
                     [sequence_number EXCEPT ![n] = NextSeq(sequence_number[n])]
              /\ built' = [built EXCEPT ![n] = @ + 1]
              /\ last' = [op EXCEPT !.pkt = <<b>>,
                                    !.out = Advertised(n, b.frame),
                                    !.error = AdvertiseError(n)]
              /\ UNCHANGED <<running, message_callback, scan_callback,
                             advertise_callback, tasks, stale, proc>>

\* _process_mesh_message(scan_record); origin tells where the frame came from
ProcessMeshMessage(n, scan_record, origin) ==
    LET op == [Idle EXCEPT !.op = "recv", !.node = n, !.frame = scan_record,
                           !.origin = origin, !.seq0 = sequence_number[n],
                           !.running0 = running[n]]
        d == Decode(scan_record)
        payload == _decrypt_payload(NETWORK_KEY, d.encrypted_payload)
        message == Utf8DecodeIgnore(payload)
        delivered == IF d.opcode = OPCODE_TEXT /\ message_callback[n]
                       THEN <<FormatMessage(d.source_id, message)>> ELSE <<>>
        b == Built(n, d.destination_id, d.opcode, payload, RelayTtl(d.ttl))
        quiet == UNCHANGED <<running, sequence_number, message_callback,
                             scan_callback, advertise_callback, tasks, stale,
                             built, proc>>
    IN IF TooShort(scan_record)
         THEN last' = op /\ quiet
       ELSE IF ~FieldsReadable(scan_record)
         THEN last' = [op EXCEPT !.error = "struct.error"] /\ quiet
       ELSE IF Exhausted(d.ttl)
         THEN last' = op /\ quiet
       ELSE IF ~CipherLengthOk(d.encrypted_payload)
         THEN last' = [op EXCEPT !.error = "ValueError"] /\ quiet
       ELSE IF ~ShouldRelay(d.ttl, running[n])
         THEN last' = [op EXCEPT !.delivered = delivered] /\ quiet
       ELSE /\ BuiltHere(n) < MaxBuilt
            /\ sequence_number' =
                   [sequence_number EXCEPT ![n] = NextSeq(sequence_number[n])]
            /\ built' = [built EXCEPT ![n] = @ + 1]
            /\ last' = [op EXCEPT !.delivered = delivered, !.pkt = <<b>>,
                                  !.out = Advertised(n, b.frame),
                                  !.error = AdvertiseError(n)]
            /\ UNCHANGED <<running, message_callback, scan_callback,
                           advertise_callback, tasks, stale, proc>>

\* the transmissions on the path of the frame that the last operation handed
\* to the advertiser, that one included, and the ttl of the first of them
Hops == IF last.op = "send" THEN 1 ELSE last.origin.hops + 1

Ttl0 == IF last.op = "send" THEN TTL_DEFAULT ELSE last.origin.ttl0

\* the scanner delivers a frame that did not come from a modelled node
ReceiveExternal(n, frames) ==
    \E f \in frames :
        ProcessMeshMessage(n, f,
            [kind |-> "external", node |-> 0, text |-> <<>>, hops |-> 1,
             ttl0 |-> IF Len(f) >= 6 THEN f[6] ELSE 0])

\* the scanner delivers, unchanged, the frame that another node has just
\* handed to its advertiser
ReceiveFromPeer(n) ==
    /\ last.out # <<>>
    /\ last.node # n
    /\ ProcessMeshMessage(n, last.out[1],
           [kind |-> IF last.op = "send" THEN "send" ELSE "relay",
            node |-> last.node, text |-> last.text,
            hops |-> Hops, ttl0 |-> Ttl0])

(***************************************************************************)
(* Spec: one node at a time, driven by its application, its presence       *)
(* thread and the scanner, which may deliver any frame of ExternalFrames.  *)
(* The other nodes stay as constructed.                                    *)
(***************************************************************************)
Untouched(m) ==
    /\ ~running[m] /\ ~message_callback[m] /\ ~scan_callback[m]
    /\ TaskCount(m) = 0
    /\ BuiltHere(m) = 0
    /\ last.node # m

Alone(n) == \A m \in Nodes \ {n} : Untouched(m)

Next ==
    \/ \E n \in Nodes : Alone(n) /\ SetMessageCallback(n)
    \/ \E n \in Nodes : \E enabled \in BOOLEAN :
          Alone(n) /\ TaskCount(n) < MaxTasks /\ Start(n, enabled)
    \/ \E n \in Nodes : Alone(n) /\ Stop(n)
    \/ \E n \in Nodes : Alone(n) /\ TaskSetup(n)
    \/ \E n \in Nodes : Alone(n) /\ TaskCheck(n)
    \/ \E n \in Nodes : Alone(n) /\ TaskWake(n)
    \/ \E n \in Nodes : \E d \in Destinations : \E t \in Texts :
          Alone(n) /\ SendMessage(n, d, t)
    \/ \E n \in Nodes : Alone(n) /\ ReceiveExternal(n, ExternalFrames)

Spec == Init /\ [][Next]_vars

(***************************************************************************)
(* SpecNet: the nodes run together and hear each other: what one node      *)
(* hands to its advertiser is what the scanner of the other delivers.      *)
(***************************************************************************)
\* text frames of a third node, three hops to go: "hi" and "h"
NetFrames ==
    {WireFrame(OPCODE_TEXT, ExtSource, BROADCAST, 3, ExtSeq,
               _encrypt_payload(NETWORK_KEY, t)) : t \in {Hi, <<104>>}}

NextNet ==
    \/ \E n \in Nodes : \E enabled \in BOOLEAN :
          TaskCount(n) < MaxTasks /\ Start(n, enabled)
    \/ \E n \in Nodes : Stop(n)
    \/ \E n \in Nodes : TaskSetup(n)
    \/ \E n \in Nodes : TaskCheck(n)
    \/ \E n \in Nodes : TaskWake(n)
    \/ \E n \in Nodes : SendMessage(n, BROADCAST, Hi)
    \/ \E n \in Nodes : ReceiveExternal(n, NetFrames)
    \/ \E n \in Nodes : ReceiveFromPeer(n)

SpecNet == InitNet /\ [][NextNet]_vars

(***************************************************************************)
(* SpecLife: the life cycle of one node: the application calls start() and *)
(* stop() in any order and at any moment, the presence threads run         *)
(* between the calls at their own pace.                                    *)
(***************************************************************************)
NextLife ==
    \/ \E n \in Nodes : \E enabled \in BOOLEAN :
          Alone(n) /\ TaskCount(n) < MaxLifeTasks /\ Start(n, enabled)
    \/ \E n \in Nodes : Alone(n) /\ Stop(n)
    \/ \E n \in Nodes : Alone(n) /\ TaskSetup(n)
    \/ \E n \in Nodes : Alone(n) /\ TaskCheck(n)
    \/ \E n \in Nodes : Alone(n) /\ TaskWake(n)

SpecLife == Init /\ [][NextLife]_vars

(***************************************************************************)
(* SpecRace: send_message on the application's thread and the receive path *)
(* on the scanner's thread of one node, statement by statement.  No lock   *)
(* guards self.sequence_number or self.running: the threads interleave     *)
(* between any two reads or writes of them.                                *)
(***************************************************************************)
\* the threads of a node that are inside send_message or the receive path
Busy(n) == Cardinality({th \in Threads : proc[n][th].pc # "idle"})

Step(n, th, name) ==
    [Idle EXCEPT !.op = name, !.node = n, !.thread = th,
                 !.seq0 = sequence_number[n], !.running0 = running[n]]

\* send_message up to the call of _create_mesh_packet: the length test and
\* the encryption
SendBegin(n, destination_id, text) ==
    /\ proc[n]["app"].pc = "idle"
    /\ BuiltHere(n) + Busy(n) < MaxBuilt
    /\ IF TooLong(text)
         THEN /\ proc' = proc
              /\ last' = [Step(n, "app", "send.begin") EXCEPT !.rejected = TRUE]
         ELSE /\ proc' = [proc EXCEPT ![n]["app"] =
                     [IdleProc EXCEPT !.pc = "pack", !.dest = destination_id,
                         !.opcode = OPCODE_TEXT,
                         !.payload = _encrypt_payload(NETWORK_KEY, Utf8Encode(text)),
                         !.ttl = TTL_DEFAULT, !.began = running[n],
                         !.checked = TRUE]]
              /\ last' = Step(n, "app", "send.begin")
    /\ UNCHANGED <<running, sequence_number, message_callback, scan_callback,
                   advertise_callback, tasks, stale, built>>

\* _process_mesh_message up to the relay test: the length and ttl tests, the
\* decryption and the message callback
RecvBegin(n, scan_record) ==
    LET op == [Step(n, "scan", "recv.begin") EXCEPT !.frame = scan_record]
        d == Decode(scan_record)
        payload == _decrypt_payload(NETWORK_KEY, d.encrypted_payload)
        message == Utf8DecodeIgnore(payload)
        delivered == IF d.opcode = OPCODE_TEXT /\ message_callback[n]
                       THEN <<FormatMessage(d.source_id, message)>> ELSE <<>>
    IN /\ proc[n]["scan"].pc = "idle"
       /\ BuiltHere(n) + Busy(n) < MaxBuilt
       /\ IF TooShort(scan_record)
            THEN last' = op /\ proc' = proc
          ELSE IF ~FieldsReadable(scan_record)
            THEN last' = [op EXCEPT !.error = "struct.error"] /\ proc' = proc
          ELSE IF Exhausted(d.ttl)
            THEN last' = op /\ proc' = proc
          ELSE IF ~CipherLengthOk(d.encrypted_payload)
            THEN last' = [op EXCEPT !.error = "ValueError"] /\ proc' = proc
          ELSE /\ last' = [op EXCEPT !.delivered = delivered]
               /\ proc' = [proc EXCEPT ![n]["scan"] =
                      [IdleProc EXCEPT !.pc = "flag", !.dest = d.destination_id,
                          !.opcode = d.opcode, !.payload = payload,
                          !.ttl = d.ttl, !.began = running[n]]]
       /\ UNCHANGED <<running, sequence_number, message_callback, scan_callback,
                      advertise_callback, tasks, stale, built>>

\* if ttl > 1 and self.running: the flag is read now, not when the frame
\* arrived
FlagCheck(n) ==
    LET p == proc[n]["scan"]
    IN /\ p.pc = "flag"
       /\ proc' = [proc EXCEPT ![n]["scan"] =
              IF ShouldRelay(p.ttl, running[n])
                THEN [p EXCEPT !.pc = "pack", !.ttl = RelayTtl(p.ttl),
                               !.checked = running[n]]
                ELSE IdleProc]
       /\ last' = [Step(n, "scan", "flag") EXCEPT !.began = p.began]
       /\ UNCHANGED <<running, sequence_number, message_callback, scan_callback,
                      advertise_callback, tasks, stale, built>>

\* _create_mesh_packet up to packet[7:] = payload: pack_into reads
\* self.sequence_number
Pack(n, th) ==
    LET p == proc[n][th]
    IN /\ p.pc = "pack"
       /\ proc' = [proc EXCEPT ![n][th] =
              [p EXCEPT !.pc = "load", !.seq = sequence_number[n],
                        !.frame = BuildFrame(n, sequence_number[n], p.dest,
                                             p.opcode, p.payload, p.ttl)]]
       /\ last' = Step(n, th, "pack")
       /\ UNCHANGED <<running, sequence_number, message_callback, scan_callback,
                      advertise_callback, tasks, stale, built>>

\* self.sequence_number + 1: the counter is read again
Load(n, th) ==
    LET p == proc[n][th]
    IN /\ p.pc = "load"
       /\ proc' = [proc EXCEPT ![n][th] =
              [p EXCEPT !.pc = "store", !.reg = sequence_number[n]]]
       /\ last' = Step(n, th, "load")
       /\ UNCHANGED <<running, sequence_number, message_callback, scan_callback,
                      advertise_callback, tasks, stale, built>>

\* self.sequence_number = (...) % 0xFFFF: what was read, advanced, is written
Store(n, th) ==
    LET p == proc[n][th]
    IN /\ p.pc = "store"
       /\ sequence_number' = [sequence_number EXCEPT ![n] = NextSeq(p.reg)]
       /\ built' = [built EXCEPT ![n] = @ + 1]
       /\ proc' = [proc EXCEPT ![n][th] = [p EXCEPT !.pc = "adv"]]
       /\ last' = Step(n, th, "store")
       /\ UNCHANGED <<running, message_callback, scan_callback,
                      advertise_callback, tasks, stale>>

\* _advertise_packet(packet)
Advertise(n, th) ==
    LET p == proc[n][th]
    IN /\ p.pc = "adv"
       /\ proc' = [proc EXCEPT ![n][th] = IdleProc]
       /\ last' = [Step(n, th, "advertise") EXCEPT
                      !.began = p.began,
                      !.out = Advertised(n, p.frame),
                      !.error = AdvertiseError(n)]
       /\ UNCHANGED <<running, sequence_number, message_callback, scan_callback,
                      advertise_callback, tasks, stale, built>>

\* the scanner calls onScanResult once start() has registered it; a result
\* already on its way is still delivered after stopScan
NextRace ==
    \/ \E n \in Nodes : Alone(n) /\ TaskCount(n) < MaxLifeTasks /\ Start(n, TRUE)
    \/ \E n \in Nodes : Alone(n) /\ Stop(n)
    \/ \E n \in Nodes : Alone(n) /\ TaskSetup(n)
    \/ \E n \in Nodes : Alone(n) /\ SendBegin(n, BROADCAST, Hi)
    \/ \E n \in Nodes : \E f \in RaceFrames :
          Alone(n) /\ scan_callback[n] /\ RecvBegin(n, f)
    \/ \E n \in Nodes : Alone(n) /\ FlagCheck(n)
    \/ \E n \in Nodes : \E th \in Threads : Alone(n) /\ Pack(n, th)
    \/ \E n \in Nodes : \E th \in Threads : Alone(n) /\ Load(n, th)
    \/ \E n \in Nodes : \E th \in Threads : Alone(n) /\ Store(n, th)
    \/ \E n \in Nodes : \E th \in Threads : Alone(n) /\ Advertise(n, th)

SpecRace == Init /\ [][NextRace]_vars

(***************************************************************************)
(* Properties.  They read the record of the last operation: its inputs     *)
(* (text, dest, frame), the counter before it (seq0), the packets it built *)
(* (pkt), the frames it handed to the advertiser (out), the strings it     *)
(* passed to the message callback (delivered) and the error it raised.     *)
(***************************************************************************)
Received == last.op = "recv" /\ ~TooShort(last.frame)

\* the received frame, read field by field
In == Decode(last.frame)

Relayed == last.op = "recv" /\ last.pkt # <<>>

\* the largest plaintext that fits a frame of MAX_PAYLOAD_SIZE bytes
MaxPlaintext == MAX_PAYLOAD_SIZE - HEADER_SIZE

\* "Node 7: hi"
Node7Hi == <<78, 111, 100, 101, 32, 55, 58, 32, 104, 105>>

\* C1: when the frame that a node's send_message handed to its advertiser is
\* delivered unchanged to the receive path of another node with the same
\* network key, that node's message callback is invoked exactly once, with
\* "Node {sender id}: {text}", and the receive path raises no error.
C1_SentFrameIsDelivered ==
    (last.op = "recv" /\ last.origin.kind = "send")
        => /\ last.delivered = <<FormatMessage(last.origin.node, last.origin.text)>>
           /\ last.error = "none"

\* C2: the frame that an accepted send_message(destination_id, text) hands to
\* the transport reads, in the wire layout, opcode 0x01, the node's identity,
\* the given destination, ttl 7 and the counter value before the call, and its
\* payload (bytes 8..) is the encryption of the text.
C2_SentFrameFields ==
    (last.op = "send" /\ last.out # <<>>)
        => LET d == Decode(last.out[1])
           IN /\ d.opcode = 1
              /\ d.source_id = last.node
              /\ d.destination_id = last.dest
              /\ d.ttl = 7
              /\ d.seq_num = last.seq0
              /\ d.encrypted_payload = _encrypt_payload(NETWORK_KEY, Utf8Encode(last.text))

\* C3: every packet built by _create_mesh_packet is 8 + len(payload) bytes
\* long and the field extraction of the receive path gives back the six
\* values it was built from.
C3_CodecRoundTrip ==
    \A i \in 1..Len(last.pkt) :
        LET b == last.pkt[i]
        IN /\ Len(b.frame) = HEADER_SIZE + Len(b.payload)
           /\ Decode(b.frame) =
                  [opcode |-> b.opcode, source_id |-> b.node_id,
                   destination_id |-> b.destination_id, ttl |-> b.ttl,
                   seq_num |-> b.sequence_number, encrypted_payload |-> b.payload]

\* C4: a relayed frame keeps the opcode, the source_id (the originator's) and
\* the destination_id of the frame that was received.
C4_RelayKeepsAddressing ==
    (Relayed /\ last.out # <<>>)
        => LET o == last.out[1]
           IN /\ o[1] = In.opcode
              /\ UnpackH(Slice(o, 1, 3)) = In.source_id
              /\ UnpackH(Slice(o, 3, 5)) = In.destination_id

\* C5: the relay of a frame received with ttl t in 2..255 carries ttl t - 1
\* and the relaying node's counter value from just before the relay, and the
\* counter advances by exactly one.
C5_RelayTtlAndSequence ==
    (Relayed /\ last.out # <<>>)
        => LET o == last.out[1]
           IN /\ o[6] = In.ttl - 1
              /\ Len(o) >= HEADER_SIZE
              /\ UnpackH(Slice(o, 6, 8)) = last.seq0
              /\ sequence_number[last.node] = (last.seq0 + 1) % 65536

\* C6: a frame received with ttl 0 is not delivered to the message callback,
\* is not relayed and leaves the sequence counter as it was, whatever its
\* opcode and payload and whether the node is running or stopped.
C6_TtlZeroDropped ==
    (Received /\ In.ttl = 0)
        => /\ last.delivered = <<>>
           /\ last.pkt = <<>>
           /\ last.out = <<>>
           /\ sequence_number[last.node] = last.seq0

\* a running node with a registered callback and an advertiser callback has
\* received a text frame with ttl 0 whose payload decrypts
C6_Witness ==
    /\ Received
    /\ In.ttl = 0
    /\ In.opcode = OPCODE_TEXT
    /\ In.encrypted_payload = _encrypt_payload(NETWORK_KEY, Hi)
    /\ running[last.node]
    /\ message_callback[last.node]
    /\ advertise_callback[last.node]

\* C7, as stated: a frame received with ttl 1 is delivered to the message
\* callback when its opcode is 0x01, is not relayed and consumes no sequence
\* number.
C7_TtlOneDelivered ==
    (Received /\ In.ttl = 1)
        => /\ (In.opcode = OPCODE_TEXT /\ message_callback[last.node])
                  => Len(last.delivered) = 1
           /\ last.pkt = <<>>
           /\ last.out = <<>>
           /\ sequence_number[last.node] = last.seq0

\* C7, amended: a frame received with ttl 1 is never relayed and consumes no
\* sequence number; when its opcode is 0x01, its payload is a whole number of
\* cipher blocks and a message callback is registered, it is delivered to the
\* callback exactly once (the encryption of "hi" from node 7 as "Node 7: hi").
C7_TtlOneDeliveredIfDecryptable ==
    (Received /\ In.ttl = 1)
        => /\ ( /\ In.opcode = OPCODE_TEXT
                /\ message_callback[last.node]
                /\ CipherLengthOk(In.encrypted_payload) )
                  => /\ Len(last.delivered) = 1
                     /\ last.error = "none"
                     /\ (In.encrypted_payload = _encrypt_payload(NETWORK_KEY, Hi)
                            => last.delivered[1] = Node7Hi)
           /\ last.pkt = <<>>
           /\ last.out = <<>>
           /\ sequence_number[last.node] = last.seq0

\* a running node that could relay has received a text frame with ttl 1 and
\* has passed it to its message callback
C7_Witness ==
    /\ Received
    /\ In.ttl = 1
    /\ In.opcode = OPCODE_TEXT
    /\ last.delivered = <<Node7Hi>>
    /\ running[last.node]
    /\ advertise_callback[last.node]

\* C8: the counter wraps modulo 65536: after n packets built by a node that
\* started at 0 its counter is n mod 65536.
C8_WrapsAt65536 ==
    \A n \in Nodes : sequence_number[n] = built[n] % 65536

\* C9: send_message rejects every text whose UTF-8 encoding is longer than the
\* largest plaintext (15 bytes): no packet is built, nothing is handed to the
\* transport and the counter is unchanged.
C9_OversizedTextRejected ==
    (last.op = "send" /\ Len(Utf8Encode(last.text)) > MaxPlaintext)
        => /\ last.rejected
           /\ last.pkt = <<>>
           /\ last.out = <<>>
           /\ sequence_number[last.node] = last.seq0

\* C10: every frame handed to the transport, by send_message or by a relay,
\* is at most 23 bytes long, header and payload together.
C10_FrameFitsTransport ==
    \A i \in 1..Len(last.out) : Len(last.out[i]) <= MAX_PAYLOAD_SIZE

\* a payload the cipher accepts by the claim's measure: whole blocks, at
\* least one
BlockAligned(p) == Len(p) > 0 /\ Len(p) % BLOCK_SIZE = 0

\* C11: the payload of every frame handed to the transport, originated or
\* relayed, is ciphertext under the network key and a positive multiple of
\* 16 bytes long; a relay hands on the encryption of what it decrypted, never
\* the decrypted payload itself.
C11_PayloadOnAirIsCiphertext ==
    (last.out # <<>>)
        => \A i \in 1..Len(last.pkt) :
              LET p == last.pkt[i].payload
              IN /\ BlockAligned(p)
                 /\ Relayed =>
                       p = _encrypt_payload(NETWORK_KEY,
                               _decrypt_payload(NETWORK_KEY, In.encrypted_payload))

\* C12: a received buffer of fewer than 8 bytes is dropped silently: no
\* callback, no relay, no error, and the sequence counter stays as it was.
C12_ShortBufferDropped ==
    (last.op = "recv" /\ Len(last.frame) < 8)
        => /\ last.delivered = <<>>
           /\ last.pkt = <<>>
           /\ last.out = <<>>
           /\ last.error = "none"
           /\ sequence_number[last.node] = last.seq0

\* a running node with a registered callback has received a 5-byte buffer
C12_Witness ==
    /\ last.op = "recv"
    /\ Len(last.frame) = 5
    /\ running[last.node]
    /\ message_callback[last.node]
    /\ advertise_callback[last.node]

\* C13: a received frame of at least 8 bytes with ttl >= 1 whose payload is
\* not a positive multiple of 16 bytes long is dropped silently: no callback,
\* no relay, no change of the sequence counter, and no error leaves the
\* receive path.
C13_BadCiphertextDropped ==
    (Received /\ In.ttl >= 1 /\ ~BlockAligned(In.encrypted_payload))
        => /\ last.delivered = <<>>
           /\ last.pkt = <<>>
           /\ last.out = <<>>
           /\ last.error = "none"
           /\ sequence_number[last.node] = last.seq0

\* C14: stop() on a node that is already stopped, a node just constructed
\* included, leaves it stopped and raises no error.
C14_StopIsIdempotent ==
    (last.op = "stop" /\ ~last.running0)
        => /\ ~running[last.node]
           /\ last.error = "none"

\* C20: send_message is atomic with respect to the sequence counter in every
\* state (before the first start(), after start() before the presence task
\* has set the advertise callback, while running, after stop()): either one
\* frame is handed to the transport and the counter advanced by one, or
\* nothing is transmitted and the counter is unchanged.
C20_SendIsAtomic ==
    (last.op = "send")
        => \/ /\ Len(last.out) = 1
              /\ sequence_number[last.node] = NextSeq(last.seq0)
           \/ /\ last.out = <<>>
              /\ sequence_number[last.node] = last.seq0

\* the ttl byte of the frame that the last operation handed to the advertiser
TtlOnAir == last.out[1][6]

\* C19: flooding terminates: every relayed frame carries a ttl strictly
\* smaller than the ttl of the frame that triggered it, no frame is handed to
\* the transport with ttl 0, and an originated frame starts with ttl 7; so the
\* n-th transmission on a relay path carries ttl0 + 1 - n, and a message
\* originated with ttl 7 is transmitted at most 7 times along any path.
C19_FloodingTerminates ==
    (last.out # <<>>)
        => /\ TtlOnAir >= 1
           /\ last.op = "send" => TtlOnAir = TTL_DEFAULT
           /\ Relayed => TtlOnAir < In.ttl
           /\ Hops + TtlOnAir = Ttl0 + 1
           /\ Ttl0 <= TTL_DEFAULT => Hops <= TTL_DEFAULT

\* a node has relayed a frame that its peer had relayed before: the third
\* transmission on the path
C19_Witness ==
    /\ Relayed
    /\ last.out # <<>>
    /\ last.origin.kind = "relay"
    /\ Hops = 3
    /\ TtlOnAir = 1

\* C15: every presence thread that is alive when stop() is called ends at
\* its next test of the running flag, whatever start() and stop() calls come
\* in between, a start() issued before the thread wakes included.
C15_StoppedTaskEnds ==
    (last.op = "task" /\ last.pc = "check" /\ last.old) => last.ended

\* C18: at every moment at most one presence thread of a node is alive, for
\* every sequence of start() and stop() calls: start() twice while running,
\* and stop() then start() while the old thread still sleeps, included.
C18_AtMostOneTask ==
    \A n \in Nodes : TaskCount(n) <= 1

\* the positions at which a thread holds a packet it has packed
Packed == {"load", "store", "adv"}

\* C16: with send_message and the relay of the receive path running
\* concurrently on one node no update of the counter is lost: once the
\* threads are through, the counter has advanced by one for every packet
\* built (modulo the wrap), and no two packets built within one wrap carry
\* the same sequence number.
C16_NoLostUpdate ==
    \A n \in Nodes :
        /\ Busy(n) = 0 => sequence_number[n] = built[n] % SEQ_MODULUS
        /\ ~ /\ proc[n]["app"].pc \in Packed
             /\ proc[n]["scan"].pc \in Packed
             /\ proc[n]["app"].seq = proc[n]["scan"].seq

\* C17 as stated: a frame whose receive processing begins while the node is
\* stopped is never relayed, whatever its ttl: the scanner's thread never
\* gets to build a packet for it.
C17_BegunStoppedNotRelayed ==
    \A n \in Nodes :
        proc[n]["scan"].pc \in BuildPcs => proc[n]["scan"].began

\* C17: a frame whose relay test reads the running flag while the node is
\* stopped is never relayed and consumes no sequence number, whatever its
\* ttl; a relay that is under way has passed the test while the node was
\* running, and may complete after a stop().
C17_CheckedStoppedNotRelayed ==
    /\ (last.op = "flag" /\ ~last.running0)
          => /\ proc[last.node]["scan"].pc = "idle"
             /\ sequence_number[last.node] = last.seq0
             /\ last.out = <<>>
    /\ \A n \in Nodes :
          proc[n]["scan"].pc \in BuildPcs => proc[n]["scan"].checked

\* the relay test of a frame with ttl 2, which arrived while the node was
\* running, is made after stop()
C17_Witness ==
    /\ last.op = "flag"
    /\ ~last.running0
    /\ last.began
    /\ proc[last.node]["scan"].pc = "idle"
    /\ proc[last.node]["app"].pc = "adv"

=============================================================================
